---------------------------- MODULE Spec2Model ----------------------------
(***************************************************************************)
(* Document ingestion, de-indexing, document and conversation deletion    *)
(* and retrieval of the ChatWithDocs API.                                  *)
(*                                                                         *)
(* Five specifications live in this module:                                *)
(*   Spec          the ingestion / deletion / retrieval pipeline acting on *)
(*                 the relational store, the object store and the vector   *)
(*                 index (src/ingestion/ingestor.py and the routers);      *)
(*   SpecNames     the pure index / namespace derivations of ingestion,    *)
(*                 retrieval, de-indexing and the conversation sweep,      *)
(*                 applied to bounded sets of owner and conversation ids;  *)
(*   SpecSanitize  sanitize_index_name and sanitize_namespace applied,     *)
(*                 once and again, to bounded raw names;                   *)
(*   SpecProgress  the indexing_progress values of one ingest_document     *)
(*                 call, computed in binary64 as Python computes them;     *)
(*   SpecTasks     the ingestion endpoints and the background tasks they   *)
(*                 schedule, interleaved step by step.                     *)
(*                                                                         *)
(* Strings are sequences of one-character strings, so that length,         *)
(* slicing and per-character substitution are computed as Python does.     *)
(***************************************************************************)
EXTENDS Integers, Sequences, FiniteSets, TLC

VARIABLES
    \* ---- relational store (persisted rows) ----
    documents,      \* Document rows, by id
    chunk_rows,     \* DocumentChunk rows, in insertion order
    \* ---- object store ----
    blobs,          \* ids of the documents whose blob is stored
    \* ---- vector database ----
    indexes,        \* names of the existing indexes
    vectors,        \* stored vectors, keyed by (index, namespace, id)
    \* ---- ingest_document invocations ----
    run,            \* per document: position and locals of its ingest_document call
    runs_started,   \* per document: number of ingest_document calls so far
    index_history,  \* per document: never indexed, indexed, or de-indexed since
    last_op,        \* outcome of the last delete / retrieve operation
    \* ---- name resolution (SpecNames) ----
    owner_id,       \* owner whose names are resolved
    thread_id,      \* conversation id whose names are resolved
    ingest_pair,    \* (index, namespace) ingest_document upserts into
    retrieve_pair,  \* (index, namespace) retrieve_documents searches
    deindex_pair,   \* (index, namespace) of the two removal steps of
                    \* delete_document_from_index
    sweep_pair,     \* (index, namespace) conversation deletion passes to
                    \* delete_namespace, and the one delete_namespace acts on
    \* ---- sanitization (SpecSanitize) ----
    raw_name,       \* the string a name is derived from
    index_names,    \* results of sanitize_index_name: of raw_name, then of
                    \* the stored result
    namespaces,     \* results of sanitize_namespace, likewise
    \* ---- progress of one ingest_document call (SpecProgress) ----
    batch_progress, \* the loop position of the call and the
                    \* indexing_progress values it has written
    \* ---- ingestion endpoints and background tasks (SpecTasks) ----
    task_docs,      \* index_status and is_processed of the documents of one
                    \* conversation
    tasks,          \* the process_document_task invocations
    response        \* what the last ingestion request answered

pipeline_vars == <<documents, chunk_rows, blobs, indexes, vectors, run,
                   runs_started, index_history, last_op>>
names_vars == <<owner_id, thread_id, ingest_pair, retrieve_pair, deindex_pair,
                sweep_pair>>
sanitize_vars == <<raw_name, index_names, namespaces>>
progress_vars == <<batch_progress>>
task_vars == <<task_docs, tasks, response>>
\* the pipeline variables but the set of indexes, which the tasks share
store_vars == <<documents, chunk_rows, blobs, vectors, run, runs_started,
                index_history, last_op>>
aux_vars == <<sanitize_vars, progress_vars, task_vars>>
vars == <<pipeline_vars, names_vars, aux_vars>>

-----------------------------------------------------------------------------
(* Bounds of the model                                                     *)

\* ingest_document calls per document
MaxRuns == 2
\* free characters at the end of a conversation id
MaxTail == 2
\* free characters at the start of a raw name
MaxAffix == 2
\* chunks of the largest document whose progress values are computed
MaxChunks == 500
\* background tasks the ingestion endpoints schedule in all
MaxTasks == 3

-----------------------------------------------------------------------------
(* Strings                                                                 *)

LowerChars == {"a","b","c","d","e","f","g","h","i","j","k","l","m",
               "n","o","p","q","r","s","t","u","v","w","x","y","z"}
UpperChars == {"A","B","C","D","E","F","G","H","I","J","K","L","M",
               "N","O","P","Q","R","S","T","U","V","W","X","Y","Z"}
DigitChars == {"0","1","2","3","4","5","6","7","8","9"}

\* str(n) for a non-negative integer
RECURSIVE Str(_)
Str(n) ==
    LET d == <<"0","1","2","3","4","5","6","7","8","9">>[(n % 10) + 1]
    IN  IF n < 10 THEN <<d>> ELSE Str(n \div 10) \o <<d>>

\* s[:k] of Python, k of either sign
PySlice(s, k) ==
    LET stop == IF k >= 0 THEN k ELSE Len(s) + k
        upto == IF stop < 0 THEN 0 ELSE IF stop > Len(s) THEN Len(s) ELSE stop
    IN  SubSeq(s, 1, upto)

\* the characters of s as one string value: the stores hold names and ids
\* in this form
RECURSIVE Text(_)
Text(s) == IF s = <<>> THEN "" ELSE Head(s) \o Text(Tail(s))

\* c repeated k times
Rep(c, k) == [i \in 1..k |-> c]

\* all strings over alphabet A of length at most k
RECURSIVE StringsUpTo(_, _)
StringsUpTo(A, k) ==
    IF k = 0 THEN {<<>>}
    ELSE LET shorter == StringsUpTo(A, k - 1)
         IN  shorter \cup {Append(s, c) : s \in shorter, c \in A}

-----------------------------------------------------------------------------
(* Index and namespace names                                               *)

\* the single application-wide index name
IndexName == <<"c","h","a","t","w","i","t","h","d","o","c","s">>

\* namespace length limit (max_namespace_length)
MaxNamespaceLength == 64
\* length limit of sanitize_namespace
SanitizeNamespaceLimit == 64
\* length limits of sanitize_index_name
IndexNameMinLength == 3
IndexNameMaxLength == 45

NamespaceChars == LowerChars \cup UpperChars \cup DigitChars \cup {"_", "-"}
IndexChars == LowerChars \cup DigitChars \cup {"-"}

\* str.lower() on the upper-case letters
LowerMap ==
    LET upper == <<"A","B","C","D","E","F","G","H","I","J","K","L","M",
                   "N","O","P","Q","R","S","T","U","V","W","X","Y","Z">>
        lower == <<"a","b","c","d","e","f","g","h","i","j","k","l","m",
                   "n","o","p","q","r","s","t","u","v","w","x","y","z">>
    IN  [c \in UpperChars |-> lower[CHOOSE i \in 1..26 : upper[i] = c]]

\* str.lower() on one character
LowerOf(c) == IF c \in UpperChars THEN LowerMap[c] ELSE c

\* re.sub(r'[^...]', '', s): drop the characters outside Allowed
RECURSIVE Strip(_, _)
Strip(s, Allowed) ==
    IF s = <<>> THEN <<>>
    ELSE IF Head(s) \in Allowed THEN <<Head(s)>> \o Strip(Tail(s), Allowed)
    ELSE Strip(Tail(s), Allowed)

\* re.sub(r'-+', '-', s): collapse runs of hyphens
RECURSIVE CollapseHyphens(_)
CollapseHyphens(s) ==
    IF Len(s) < 2 THEN s
    ELSE IF Head(s) = "-" /\ s[2] = "-" THEN CollapseHyphens(Tail(s))
    ELSE <<Head(s)>> \o CollapseHyphens(Tail(s))

\* sanitize_index_name without the repair of the first character
SanitizeIndexNameKeepingStart(name) ==
    LET lowered   == [i \in 1..Len(name) |-> LowerOf(name[i])]
        collapsed == CollapseHyphens(Strip(lowered, IndexChars))
        padded    == IF Len(collapsed) < IndexNameMinLength
                     THEN <<"i","d","x","-">> \o collapsed
                     ELSE collapsed
    IN  IF Len(padded) > IndexNameMaxLength
        THEN SubSeq(padded, 1, IndexNameMaxLength)
        ELSE padded

\* sanitize_index_name collapsing the hyphens before it drops the other
\* characters
SanitizeIndexNameCollapsingFirst(name) ==
    LET lowered   == [i \in 1..Len(name) |-> LowerOf(name[i])]
        stripped  == Strip(CollapseHyphens(lowered), IndexChars)
        started   == IF stripped # <<>> /\ stripped[1] \notin (LowerChars \cup DigitChars)
                     THEN <<"p">> \o Tail(stripped)
                     ELSE stripped
        padded    == IF Len(started) < IndexNameMinLength
                     THEN <<"i","d","x","-">> \o started
                     ELSE started
    IN  IF Len(padded) > IndexNameMaxLength
        THEN SubSeq(padded, 1, IndexNameMaxLength)
        ELSE padded

\* PineconeIndexer.sanitize_index_name
sanitize_index_name(name) ==
    LET lowered   == [i \in 1..Len(name) |-> LowerOf(name[i])]
        stripped  == Strip(lowered, IndexChars)
        collapsed == CollapseHyphens(stripped)
        started   == IF collapsed # <<>> /\ collapsed[1] \notin (LowerChars \cup DigitChars)
                     THEN <<"p">> \o Tail(collapsed)
                     ELSE collapsed
        padded    == IF Len(started) < IndexNameMinLength
                     THEN <<"i","d","x","-">> \o started
                     ELSE started
    IN  IF Len(padded) > IndexNameMaxLength
        THEN SubSeq(padded, 1, IndexNameMaxLength)
        ELSE padded

\* PineconeIndexer.sanitize_namespace
sanitize_namespace(namespace) ==
    LET sanitized == [i \in 1..Len(namespace) |->
                        IF namespace[i] \in NamespaceChars THEN namespace[i] ELSE "_"]
    IN  IF Len(sanitized) > SanitizeNamespaceLimit
        THEN SubSeq(sanitized, 1, SanitizeNamespaceLimit)
        ELSE sanitized

\* f"{user_id}{thread_id}", no separator between the two ids
RawNamespaceUnseparated(user, thread) ==
    LET namespace == user \o thread
    IN  IF Len(namespace) > MaxNamespaceLength
        THEN user \o PySlice(thread, MaxNamespaceLength - Len(user))
        ELSE namespace

\* f"{user_id}-{thread_id}" cut as a whole, from its start, to the limit
RawNamespaceKeepingEnd(user, thread) ==
    LET namespace == user \o <<"-">> \o thread
    IN  IF Len(namespace) > MaxNamespaceLength
        THEN SubSeq(namespace, Len(namespace) - MaxNamespaceLength + 1, Len(namespace))
        ELSE namespace

\* f"{user_id}-{thread_id}", the thread id cut so that the whole fits the limit
RawNamespace(user, thread) ==
    LET namespace == user \o <<"-">> \o thread
    IN  IF Len(namespace) > MaxNamespaceLength
        THEN user \o <<"-">> \o PySlice(thread, MaxNamespaceLength - Len(user) - 1)
        ELSE namespace

\* the namespace ingest_document upserts into
IngestNamespace(user_id, thread) == sanitize_namespace(RawNamespace(Str(user_id), thread))

\* the index ingest_document upserts into (what ensure_index_exists returns)
IngestIndex == sanitize_index_name(IndexName)

\* the namespace retrieve_documents searches
RetrieveNamespace(user_id, thread) == RawNamespace(Str(user_id), thread)

\* the index retrieve_documents searches
RetrieveIndex == IndexName

-----------------------------------------------------------------------------
(* The stores                                                              *)

\* ids of the Document rows of the model
DocIds == {1}
\* Document.user_id and Document.thread_id of a document
DocUser(d) == 1
DocThread(d) == <<"t","1">>

\* chunks per vector upsert and relational commit
BATCH_SIZE == 10

\* numbers of chunks a document's text may split into: none, less than a
\* batch, one batch, a batch and a rest, two batches
ChunkCounts == {0, 4, 10, 14, 20}

\* doc_metadata as the upload endpoint creates it
NewMetadata ==
    [keys |-> {"extension"}, pinecone_index |-> <<>>, pinecone_namespace |-> <<>>,
     indexing_progress |-> 0, chunks_indexed |-> 0, total_chunks |-> 0]

\* the Document row the upload endpoint creates
NewDocument ==
    [exists |-> TRUE, is_processed |-> FALSE, index_status |-> "pending",
     doc_metadata |-> NewMetadata]

\* what remains of a Document row once it is deleted
NoDocument ==
    [exists |-> FALSE, is_processed |-> FALSE, index_status |-> "deleted",
     doc_metadata |-> NewMetadata]

\* no delete or retrieve call has returned since the last ingest_document call
\* had_processed, deindex, blob: of a document or conversation deletion,
\* whether the document was processed when it began, the status its
\* delete_document_from_index call returned ("none": not called), and what
\* became of its delete_object call ("none": not called);
\* sweeps: the delete_namespace calls of a conversation deletion
NoOp == [op |-> "none", doc |-> 0, status |-> "none", by_id |-> "none",
         by_filter |-> "none", clean |-> TRUE, index_missing |-> FALSE,
         listed |-> TRUE, had_processed |-> FALSE, deindex |-> "none", sweeps |-> 0,
         blob |-> "none"]

\* the DocumentChunk rows of a document
RowsOf(d) == {k \in 1..Len(chunk_rows) : chunk_rows[k].document_id = d}

\* the stored vectors whose document_id metadata is that of document d
VectorsOf(d) == {v \in vectors : v.document_id = Text(Str(d))}

-----------------------------------------------------------------------------
(* ingest_document                                                         *)

\* pc: the position of the call; via_task: an exception of the call went to
\* process_document_task;
\* i, total_chunks, index, namespace: the locals of the call; committed: the
\* number of chunks whose rows the call has committed; rows_before: the
\* number of DocumentChunk rows when the call began; upserts: the add_texts
\* calls it has made; raised_at: the step whose exception ended the call;
\* processed: how far process_document got ("no": not called, "done":
\* returned, else the step of it that raised); temp_file: the temporary
\* file process_document created for the call exists
IdleRun == [pc |-> "idle", via_task |-> FALSE, i |-> 0, total_chunks |-> 0,
            index |-> <<>>, namespace |-> <<>>, committed |-> 0,
            rows_before |-> 0, upserts |-> 0, raised_at |-> "none",
            processed |-> "no", temp_file |-> FALSE]

\* no ingest_document call is executing
RestingPc == {"idle", "returned", "raised", "crashed"}
\* an ingest_document call is between two of its steps
ActivePc == {"prepare", "upsert", "commit_rows", "commit_progress", "finish"}

\* what an external call may do: succeed or fail when it is made, and
\* nothing to choose when it is not made
Outcomes(made) == IF made THEN BOOLEAN ELSE {TRUE}

\* a vector id built from the position of the chunk in its batch
VectorIdInBatch(namespace, document_id, chunk_index) ==
    Text(namespace \o <<"_">> \o document_id \o <<"_">> \o Str(chunk_index % BATCH_SIZE))

\* f"{sanitized_namespace}_{meta['document_id']}_{meta['chunk_index']}"
VectorId(namespace, document_id, chunk_index) ==
    Text(namespace \o <<"_">> \o document_id \o <<"_">> \o Str(chunk_index))

\* chunk indices of the batch starting at offset i, whole batches only
BatchIndicesWholeOnly(i, total) ==
    {c \in 0..(total - 1) : c >= i /\ c < i + BATCH_SIZE /\ i + BATCH_SIZE <= total}

\* chunk indices of the batch starting at offset i: chunks[i:i+BATCH_SIZE]
BatchIndices(i, total) ==
    {c \in 0..(total - 1) : c >= i /\ c < i + BATCH_SIZE}

\* the vectors add_texts stores for the batch at offset r.i of document d
BatchVectors(d, r) ==
    LET index_text     == Text(r.index)
        namespace_text == Text(r.namespace)
        document_id    == Str(d)
        document_text  == Text(document_id)
    IN  {[index |-> index_text, namespace |-> namespace_text,
          id |-> VectorId(r.namespace, document_id, c),
          document_id |-> document_text, chunk_index |-> c] :
            c \in BatchIndices(r.i, r.total_chunks)}

\* upsert: a vector with the key of a stored vector replaces it
Upsert(stored, new) ==
    {v \in stored : ~\E n \in new : /\ n.index = v.index
                                    /\ n.namespace = v.namespace
                                    /\ n.id = v.id} \cup new

\* min(a, b)
Min(a, b) == IF a < b THEN a ELSE b

\* the DocumentChunk rows of the batch after the one at offset r.i, whose
\* vectors no add_texts call has stored yet
BatchRowsAhead(d, r) ==
    LET document_id == Str(d)
        first       == Min(r.i + BATCH_SIZE, r.total_chunks)
        last        == Min(first + BATCH_SIZE, r.total_chunks)
    IN  [k \in 1..(last - first) |->
            [document_id |-> d, chunk_index |-> first + k - 1,
             vector_id |-> VectorId(r.namespace, document_id, first + k - 1)]]

\* the DocumentChunk rows added for the batch at offset r.i, in chunk order
BatchRows(d, r) ==
    LET document_id == Str(d)
        last        == Min(r.i + BATCH_SIZE, r.total_chunks)
    IN  [k \in 1..(last - r.i) |->
            [document_id |-> d, chunk_index |-> r.i + k - 1,
             vector_id |-> VectorId(r.namespace, document_id, r.i + k - 1)]]

\* Python floats are IEEE 754 binary64 values: 53 significant bits, every
\* operation rounded to the nearest value, ties to the even one.  A natural
\* number too large for the integers of the model is the sequence of its
\* binary digits, most significant first.
FloatPrecision == 53

\* the number the first k digits of a sequence of binary digits denote
RECURSIVE BitsValue(_, _)
BitsValue(bits, k) == IF k = 0 THEN 0 ELSE 2 * BitsValue(bits, k - 1) + bits[k]

\* the binary digits of n, none for 0
RECURSIVE NatBits(_)
NatBits(n) == IF n = 0 THEN <<>> ELSE NatBits(n \div 2) \o <<n % 2>>

\* bits + 1: the last 0 becomes 1 and the digits after it 0
Increment(bits) ==
    LET zeros == {k \in 1..Len(bits) : bits[k] = 0}
    IN  IF zeros = {} THEN <<1>> \o [k \in 1..Len(bits) |-> 0]
        ELSE LET last == CHOOSE k \in zeros : \A j \in zeros : j <= k
             IN  [k \in 1..Len(bits) |->
                    IF k < last THEN bits[k] ELSE IF k = last THEN 1 ELSE 0]

\* 2^k
RECURSIVE Pow2(_)
Pow2(k) == IF k = 0 THEN 1 ELSE 2 * Pow2(k - 1)

\* binary digits taken together in one multiplication step
LimbBits == 18

\* the k binary digits of n < 2^k, leading zeros included
FixedBits(n, k) == [j \in 1..k |-> (n \div Pow2(k - j)) % 2]

\* (the first k digits of bits) * m + carry for a small m, LimbBits digits
\* at a time from the right
RECURSIVE Times(_, _, _, _)
Times(bits, m, k, carry) ==
    IF k = 0 THEN NatBits(carry)
    ELSE LET width == IF k < LimbBits THEN k ELSE LimbBits
             limb  == BitsValue(SubSeq(bits, k - width + 1, k), width)
             t     == limb * m + carry
         IN  Times(bits, m, k - width, t \div Pow2(width))
                \o FixedBits(t % Pow2(width), width)

\* the first k binary digits of r / d after the point, for r < d
RECURSIVE FractionBits(_, _, _)
FractionBits(r, d, k) ==
    IF k = 0 THEN <<>>
    ELSE <<(2 * r) \div d>> \o FractionBits((2 * r) % d, d, k - 1)

\* what is left of r / d after those k digits: (r * 2^k) mod d
RECURSIVE FractionRest(_, _, _)
FractionRest(r, d, k) == IF k = 0 THEN r ELSE FractionRest((2 * r) % d, d, k - 1)

\* bits, followed by a part that is dropped, rounded to the nearest, ties to
\* even: guard is the first dropped digit, sticky tells whether a later one
\* is not zero
RoundToEven(bits, guard, sticky) ==
    IF guard = 1 /\ (sticky \/ bits[Len(bits)] = 1) THEN Increment(bits) ELSE bits

\* the least e with a * 2^e >= b, for 0 < a < b
RECURSIVE Doublings(_, _)
Doublings(a, b) == IF a >= b THEN 0 ELSE 1 + Doublings(2 * a, b)

\* int(done / total * 100) for 0 < done <= total.
\* done / total is mantissa * 2^-scale with a mantissa of 53 digits; the
\* product with 100 is rounded to 53 digits again; int() drops the digits
\* after the point.
IntOfHundredTimesRatio(done, total) ==
    IF done = total THEN 100
    ELSE LET e        == Doublings(done, total)
             r        == done * Pow2(e - 1)
             digits   == FractionBits(r, total, FloatPrecision + 1)
             rest     == FractionRest(r, total, FloatPrecision + 1)
             mantissa == RoundToEven(SubSeq(digits, 1, FloatPrecision),
                                     digits[FloatPrecision + 1], rest # 0)
             scale    == FloatPrecision + e - 1
             product  == Times(mantissa, 100, Len(mantissa), 0)
             dropped  == Len(product) - FloatPrecision
             rounded  == RoundToEven(SubSeq(product, 1, FloatPrecision),
                                     product[FloatPrecision + 1],
                                     \E k \in (FloatPrecision + 2)..Len(product) :
                                         product[k] = 1)
             whole    == Len(rounded) - (scale - dropped)
         IN  IF whole <= 0 THEN 0 ELSE BitsValue(rounded, whole)

\* min(100, int(done / total * 100))
Progress(done, total) == Min(100, IntOfHundredTimesRatio(done, total))

\* doc_metadata.update({"indexing_progress": ..}) after a batch
ProgressMetadata(m, done, total) ==
    [m EXCEPT !.keys = @ \cup {"indexing_progress", "chunks_indexed", "total_chunks"},
              !.indexing_progress = Progress(done, total),
              !.chunks_indexed = done,
              !.total_chunks = total]

\* doc_metadata.update({"pinecone_index": ..}) of a successful run
SuccessMetadata(m, index, namespace, total) ==
    [m EXCEPT !.keys = @ \cup {"pinecone_index", "pinecone_namespace",
                               "indexing_progress", "chunks_indexed", "total_chunks"},
              !.pinecone_index = index,
              !.pinecone_namespace = namespace,
              !.indexing_progress = 100,
              !.chunks_indexed = total,
              !.total_chunks = total]

\* the Document row a successful run commits
CompletedDocument(doc, r) ==
    [doc EXCEPT !.is_processed = TRUE,
                !.index_status = "completed",
                !.doc_metadata = SuccessMetadata(@, r.index, r.namespace, r.total_chunks)]

\* the Document row the except blocks commit
FailedDocument(doc) ==
    [doc EXCEPT !.index_status = "failed",
                !.doc_metadata.keys = @ \cup {"error"}]

\* An exception leaves ingest_document.  Uncommitted changes of the session
\* are lost.  Inside the try block the except block of ingest_document
\* records the failure (handler_ok: its commit succeeds); when the caller is
\* process_document_task (via_task), the task's except block records it
\* again (task_ok: its query and commit succeed; a failure there is only
\* logged).  The caller matters only here, so it is drawn here.
\* r is the call's record when the exception is raised, at the step it names.
Raise(d, r, in_try, at) ==
    \E via_task \in BOOLEAN :
    \E handler_ok \in Outcomes(in_try) :
    \E task_ok \in Outcomes(via_task /\ ~(in_try /\ handler_ok)) :
        /\ documents' = IF (in_try /\ handler_ok) \/ (via_task /\ task_ok)
                        THEN [documents EXCEPT ![d] = FailedDocument(@)]
                        ELSE documents
        /\ run' = [run EXCEPT ![d] = [r EXCEPT !.pc = "raised", !.raised_at = at,
                                               !.via_task = via_task]]

\* lines 52-60: load the document, set processing, commit
IngestBegin(d) ==
    /\ documents[d].exists
    /\ run[d].pc \in RestingPc
    /\ runs_started[d] < MaxRuns
    /\ runs_started' = [runs_started EXCEPT ![d] = @ + 1]
    /\ last_op' = NoOp
    /\ \E commit_ok \in BOOLEAN :
         LET begun == [IdleRun EXCEPT !.pc = "prepare",
                                      !.rows_before = Len(chunk_rows)]
         IN  IF commit_ok
             THEN /\ documents' = [documents EXCEPT ![d].index_status = "processing"]
                  /\ run' = [run EXCEPT ![d] = begun]
             ELSE Raise(d, begun, FALSE, "begin")
    /\ UNCHANGED <<chunk_rows, blobs, indexes, vectors, index_history, names_vars, aux_vars>>

\* the steps of DocumentProcessor.process_document that may raise
ProcessSteps == {"download", "extract", "chunk"}

\* DocumentProcessor.process_document: whether the temporary file that
\* download_from_s3 created is left behind.  It is unlinked on return (line
\* 164) and in the except block when temp_path is bound (lines 169-173);
\* temp_path is bound only once download_from_s3 has returned, so a
\* download_file that raises leaves the file it was to fill.
TempFileLeft(processed) == processed = "download"

\* lines 62-109: conversation lookup, process_document, name resolution,
\* ensure_index_exists
IngestPrepare(d) ==
    /\ run[d].pc = "prepare"
    /\ LET sanitized_index     == IngestIndex
           sanitized_namespace == IngestNamespace(DocUser(d), DocThread(d))
           processed(step)     == [run[d] EXCEPT !.processed = step,
                                                 !.temp_file = TempFileLeft(step)]
       IN  \E outcome \in {"ok", "index_failed"} \cup ProcessSteps :
             IF outcome = "ok"
             THEN /\ blobs[d].stored
                  /\ indexes' = indexes \cup {Text(sanitized_index)}
                  /\ run' = [run EXCEPT
                                ![d] = [processed("done") EXCEPT
                                   !.pc = IF blobs[d].chunks = 0 THEN "finish" ELSE "upsert",
                                   !.total_chunks = blobs[d].chunks,
                                   !.index = sanitized_index,
                                   !.namespace = sanitized_namespace]]
                  /\ UNCHANGED documents
             ELSE /\ IF outcome \in ProcessSteps
                     THEN Raise(d, processed(outcome), TRUE, "process")
                     ELSE Raise(d, processed("done"), TRUE, "index")
                  /\ UNCHANGED indexes
    /\ UNCHANGED <<chunk_rows, blobs, vectors, runs_started, index_history, last_op,
                   names_vars, aux_vars>>

\* lines 115-149: add_texts of the batch at offset i; a failing call may
\* have stored the batch before it failed
IngestUpsert(d) ==
    /\ run[d].pc = "upsert"
    /\ LET stored == Upsert(vectors, BatchVectors(d, run[d]))
       IN  \E outcome \in {"ok", "failed", "failed_written"} :
             /\ vectors' = IF outcome \in {"ok", "failed_written"} THEN stored ELSE vectors
             /\ IF outcome = "ok"
                THEN /\ run' = [run EXCEPT ![d].pc = "commit_rows",
                                           ![d].upserts = @ + 1]
                     /\ UNCHANGED documents
                ELSE Raise(d, [run[d] EXCEPT !.upserts = @ + 1], TRUE, "upsert")
    /\ UNCHANGED <<chunk_rows, blobs, indexes, runs_started, index_history, last_op,
                   names_vars, aux_vars>>

\* lines 151-163: one DocumentChunk row per chunk of the batch, commit
IngestCommitRows(d) ==
    /\ run[d].pc = "commit_rows"
    /\ \E commit_ok \in BOOLEAN :
         IF commit_ok
         THEN /\ chunk_rows' = chunk_rows \o BatchRows(d, run[d])
              /\ run' = [run EXCEPT ![d].pc = "commit_progress",
                                    ![d].committed =
                                        Min(run[d].i + BATCH_SIZE, run[d].total_chunks)]
              /\ UNCHANGED documents
         ELSE /\ Raise(d, run[d], TRUE, "commit_rows")
              /\ UNCHANGED chunk_rows
    /\ UNCHANGED <<blobs, indexes, vectors, runs_started, index_history, last_op,
                   names_vars, aux_vars>>

\* lines 165-172: progress into doc_metadata, commit, next batch
IngestCommitProgress(d) ==
    /\ run[d].pc = "commit_progress"
    /\ \E commit_ok \in BOOLEAN :
         IF commit_ok
         THEN LET done == Min(run[d].i + BATCH_SIZE, run[d].total_chunks)
              IN  /\ documents' = [documents EXCEPT ![d].doc_metadata =
                                      ProgressMetadata(@, done, run[d].total_chunks)]
                  /\ run' = [run EXCEPT ![d].i = @ + BATCH_SIZE,
                                        ![d].pc = IF run[d].i + BATCH_SIZE < run[d].total_chunks
                                                  THEN "upsert" ELSE "finish"]
         ELSE Raise(d, run[d], TRUE, "commit_progress")
    /\ UNCHANGED <<chunk_rows, blobs, indexes, vectors, runs_started, index_history,
                   last_op, names_vars, aux_vars>>

\* lines 174-195: completed, index names into doc_metadata, commit, return
IngestFinish(d) ==
    /\ run[d].pc = "finish"
    /\ \E commit_ok \in BOOLEAN :
         IF commit_ok
         THEN /\ documents' = [documents EXCEPT ![d] = CompletedDocument(@, run[d])]
              /\ run' = [run EXCEPT ![d].pc = "returned"]
              /\ index_history' = [index_history EXCEPT ![d] = "indexed"]
         ELSE /\ Raise(d, run[d], TRUE, "finish")
              /\ UNCHANGED index_history
    /\ UNCHANGED <<chunk_rows, blobs, indexes, vectors, runs_started, last_op,
                   names_vars, aux_vars>>

\* the process running ingest_document dies between two steps
Crash(d) ==
    /\ run[d].pc \in ActivePc
    /\ run' = [run EXCEPT ![d].pc = "crashed"]
    /\ UNCHANGED <<documents, chunk_rows, blobs, indexes, vectors, runs_started,
                   index_history, last_op, names_vars, aux_vars>>

-----------------------------------------------------------------------------
(* delete_document_from_index                                              *)

\* the names recomputed without sanitize_namespace
DeindexNamesUnsanitized(user_id, thread, m) ==
    LET pinecone_index == IF "pinecone_index" \in m.keys THEN m.pinecone_index ELSE <<>>
        pinecone_namespace == IF "pinecone_namespace" \in m.keys
                              THEN m.pinecone_namespace ELSE <<>>
    IN  IF pinecone_index = <<>> \/ pinecone_namespace = <<>>
        THEN [index |-> IndexName, namespace |-> RawNamespace(Str(user_id), thread)]
        ELSE [index |-> pinecone_index, namespace |-> pinecone_namespace]

\* lines 231-253: the names stored in doc_metadata m, or, when one of them
\* is missing or empty, the names computed from the owner and conversation
DeindexNames(user_id, thread, m) ==
    LET pinecone_index == IF "pinecone_index" \in m.keys THEN m.pinecone_index ELSE <<>>
        pinecone_namespace == IF "pinecone_namespace" \in m.keys
                              THEN m.pinecone_namespace ELSE <<>>
    IN  IF pinecone_index = <<>> \/ pinecone_namespace = <<>>
        THEN [index |-> IndexName,
              namespace |-> sanitize_namespace(RawNamespace(Str(user_id), thread))]
        ELSE [index |-> pinecone_index, namespace |-> pinecone_namespace]

\* lines 231-253 for the document d
DeindexTarget(d, doc) == DeindexNames(DocUser(d), DocThread(d), doc.doc_metadata)

\* lines 290-291: the by-id step acts on the names as they are
ByIdPair(target) == [index |-> target.index, namespace |-> target.namespace]

\* PineconeIndexer.delete_document and delete_namespace act on the sanitized
\* names
SanitizedPair(index_name, namespace) ==
    [index |-> sanitize_index_name(index_name),
     namespace |-> sanitize_namespace(namespace)]

\* the index-related keys leave doc_metadata, but for pinecone_namespace
StripIndexKeysButNamespace(m) ==
    [m EXCEPT !.keys = @ \ {"pinecone_index", "indexing_progress", "chunks_indexed",
                            "total_chunks"},
              !.pinecone_index = <<>>,
              !.indexing_progress = 0,
              !.chunks_indexed = 0,
              !.total_chunks = 0]

\* lines 309-319: the index-related keys leave doc_metadata
StripIndexKeys(m) ==
    [m EXCEPT !.keys = @ \ {"pinecone_index", "pinecone_namespace",
                            "indexing_progress", "chunks_indexed", "total_chunks"},
              !.pinecone_index = <<>>,
              !.pinecone_namespace = <<>>,
              !.indexing_progress = 0,
              !.chunks_indexed = 0,
              !.total_chunks = 0]

\* lines 305-307: the Document row delete_document_from_index commits
DeindexedDocument(doc) ==
    [doc EXCEPT !.is_processed = FALSE,
                !.index_status = "pending",
                !.doc_metadata = StripIndexKeys(@)]

\* lines 286-294: index.delete(ids=chunk_ids, namespace=pinecone_namespace)
\* on the index and namespace as given
DeleteByIds(stored, index, namespace, ids) ==
    LET index_text     == Text(index)
        namespace_text == Text(namespace)
    IN  {v \in stored : ~(/\ v.index = index_text
                          /\ v.namespace = namespace_text
                          /\ v.id \in ids)}

\* PineconeIndexer.delete_document: index.delete(filter={"document_id": ..})
\* on the sanitized names
delete_document(stored, index_name, namespace, document_id) ==
    LET sanitized_index     == Text(sanitize_index_name(index_name))
        sanitized_namespace == Text(sanitize_namespace(namespace))
        document_id_text    == Text(document_id)
    IN  {v \in stored : ~(/\ v.index = sanitized_index
                          /\ v.namespace = sanitized_namespace
                          /\ v.document_id = document_id_text)}

\* lines 270-303: what the two removal steps can leave of the vectors.  Each
\* plan names the outcome of the by-id step (skipped without chunk ids), the
\* outcome of the by-filter step, and the vectors left; a step on an index
\* that does not exist fails.
RemovalPlans(d, target) ==
    LET chunk_ids    == {chunk_rows[k].vector_id : k \in RowsOf(d)}
        index_exists == Text(target.index) \in indexes
        filter_index_exists == Text(sanitize_index_name(target.index)) \in indexes
        after_ids    == DeleteByIds(vectors, target.index, target.namespace, chunk_ids)
        by_id_plans  == IF chunk_ids = {} THEN {[by_id |-> "skipped", left |-> vectors]}
                        ELSE {[by_id |-> "failed", left |-> vectors]} \cup
                             IF index_exists
                             THEN {[by_id |-> "ok", left |-> after_ids]} ELSE {}
    IN  UNION {
          {[by_id |-> p.by_id, by_filter |-> "failed", left |-> p.left]} \cup
          IF filter_index_exists
          THEN {[by_id |-> p.by_id, by_filter |-> "ok",
                 left |-> delete_document(p.left, target.index, target.namespace, Str(d))]}
          ELSE {} : p \in by_id_plans }

\* the result of delete_document_from_index past the index check
DeindexResult(d, list_ok, plan, commit_ok, missing) ==
    [NoOp EXCEPT !.op = "deindex", !.doc = d,
                 !.status = IF commit_ok THEN "success" ELSE "error",
                 !.by_id = plan.by_id, !.by_filter = plan.by_filter,
                 !.clean = /\ list_ok /\ commit_ok
                           /\ plan.by_id # "failed"
                           /\ plan.by_filter = "ok",
                 !.index_missing = missing,
                 !.listed = list_ok]

\* delete_document_from_index resetting the Document row before the index check
DeindexResettingFirst(d, target, list_ok, plan, commit_ok) ==
    LET doc     == documents[d]
        missing == Text(target.index) \notin indexes
    IN  IF list_ok /\ missing
        THEN [document |-> DeindexedDocument(doc), vectors |-> vectors,
              result |-> [NoOp EXCEPT !.op = "deindex", !.doc = d, !.status = "warning",
                                      !.by_id = "skipped", !.by_filter = "skipped",
                                      !.index_missing = TRUE]]
        ELSE [document |-> IF commit_ok THEN DeindexedDocument(doc) ELSE doc,
              vectors |-> plan.left,
              result |-> DeindexResult(d, list_ok, plan, commit_ok, missing)]

\* delete_document_from_index keeping its changes when the commit fails
DeindexWithoutRollback(d, target, list_ok, plan, commit_ok) ==
    LET doc     == documents[d]
        missing == Text(target.index) \notin indexes
    IN  IF list_ok /\ missing
        THEN [document |-> doc, vectors |-> vectors,
              result |-> [NoOp EXCEPT !.op = "deindex", !.doc = d, !.status = "warning",
                                      !.by_id = "skipped", !.by_filter = "skipped",
                                      !.index_missing = TRUE]]
        ELSE [document |-> DeindexedDocument(doc),
              vectors |-> plan.left,
              result |-> DeindexResult(d, list_ok, plan, commit_ok, missing)]

\* delete_document_from_index on the existing document d, given its target
\* names, what list_indexes does (list_ok), the removal plan and what the
\* commit does (commit_ok): the Document row, the vectors and the result
\* afterwards
Deindex(d, target, list_ok, plan, commit_ok) ==
    LET doc     == documents[d]
        missing == Text(target.index) \notin indexes
    IN  IF list_ok /\ missing
        THEN [document |-> doc, vectors |-> vectors,
              result |-> [NoOp EXCEPT !.op = "deindex", !.doc = d, !.status = "warning",
                                      !.by_id = "skipped", !.by_filter = "skipped",
                                      !.index_missing = TRUE]]
        ELSE [document |-> IF commit_ok THEN DeindexedDocument(doc) ELSE doc,
              vectors |-> plan.left,
              result |-> DeindexResult(d, list_ok, plan, commit_ok, missing)]

\* the history of a document after a delete_document_from_index call
HistoryAfter(h, result) ==
    IF result.op = "deindex" /\ result.status = "success" /\ h = "indexed"
    THEN "deindexed" ELSE h

\* every outcome delete_document_from_index can have on the existing document d
DeindexOutcomes(d) ==
    LET target == DeindexTarget(d, documents[d])
        plans  == RemovalPlans(d, target)
    IN  {Deindex(d, target, list_ok, plan, commit_ok) :
            list_ok \in BOOLEAN, plan \in plans, commit_ok \in BOOLEAN}

\* DocumentIngestor.delete_document_from_index, called on an existing document
DeleteDocumentFromIndex(d) ==
    /\ documents[d].exists
    /\ run[d].pc \in RestingPc
    /\ \E out \in DeindexOutcomes(d) :
         /\ documents' = [documents EXCEPT ![d] = out.document]
         /\ vectors' = out.vectors
         /\ last_op' = out.result
         /\ index_history' = [index_history EXCEPT ![d] = HistoryAfter(@, out.result)]
    /\ run' = [run EXCEPT ![d] = IdleRun]
    /\ UNCHANGED <<chunk_rows, blobs, indexes, runs_started, names_vars, aux_vars>>

-----------------------------------------------------------------------------
(* The document delete endpoint                                            *)

\* routers/document.py delete_document: vectors (only if is_processed),
\* then the blob, then the Document row with its chunk rows
DeleteDocument(d) ==
    /\ documents[d].exists
    /\ run[d].pc \in RestingPc
    /\ \E out \in IF documents[d].is_processed
                  THEN DeindexOutcomes(d)
                  ELSE {[document |-> documents[d], vectors |-> vectors,
                         result |-> NoOp]} :
       \E s3_ok \in BOOLEAN, commit_ok \in BOOLEAN :
         /\ vectors' = out.vectors
         /\ blobs' = IF s3_ok THEN [blobs EXCEPT ![d].stored = FALSE] ELSE blobs
         /\ documents' = [documents EXCEPT ![d] =
                             IF commit_ok THEN NoDocument ELSE out.document]
         /\ chunk_rows' = IF commit_ok
                          THEN SelectSeq(chunk_rows, LAMBDA r : r.document_id # d)
                          ELSE chunk_rows
         /\ last_op' = [NoOp EXCEPT !.op = "delete", !.doc = d,
                                    !.status = IF commit_ok THEN "204" ELSE "500",
                                    !.clean = out.result.clean /\ s3_ok /\ commit_ok,
                                    !.had_processed = documents[d].is_processed,
                                    !.deindex = out.result.status,
                                    !.blob = IF s3_ok THEN "deleted" ELSE "failed"]
         /\ index_history' = [index_history EXCEPT ![d] = HistoryAfter(@, out.result)]
    /\ run' = [run EXCEPT ![d] = IdleRun]
    /\ UNCHANGED <<indexes, runs_started, names_vars, aux_vars>>

-----------------------------------------------------------------------------
(* Conversation deletion                                                   *)

\* f"user{user.id}", the index name of conversation deletion
SweepIndexName(user_id) == <<"u","s","e","r">> \o Str(user_id)

\* PineconeIndexer.delete_namespace: index.delete(delete_all=True) on the
\* sanitized names
delete_namespace(stored, index_name, namespace) ==
    LET target         == SanitizedPair(index_name, namespace)
        index_text     == Text(target.index)
        namespace_text == Text(target.namespace)
    IN  {v \in stored : ~(v.index = index_text /\ v.namespace = namespace_text)}

\* lines 233-244: the sweep is made when a member document is processed
\* once the loop is over; the call fails on an index that does not exist
\* and may fail otherwise, and a failure is only logged
SweepOutcomes(d, processed, stored) ==
    LET sanitized_index     == sanitize_index_name(SweepIndexName(DocUser(d)))
        sanitized_namespace == sanitize_namespace(DocThread(d))
        index_exists        == Text(sanitize_index_name(sanitized_index)) \in indexes
    IN  IF ~processed
        THEN {[sweeps |-> 0, vectors |-> stored]}
        ELSE {[sweeps |-> 1, vectors |-> stored]} \cup
             IF index_exists
             THEN {[sweeps |-> 1,
                    vectors |-> delete_namespace(stored, sanitized_index,
                                                 sanitized_namespace)]}
             ELSE {}

\* routers/conversation.py _delete_conversation_internal for the conversation
\* whose member document is d: per document the blob and, if the document
\* is processed, delete_document_from_index (skipped when the blob delete
\* raises); then the sweep; then the conversation with its Document and
\* DocumentChunk rows
DeleteConversation(d) ==
    /\ documents[d].exists
    /\ run[d].pc \in RestingPc
    /\ \E s3_ok \in BOOLEAN :
       \E out \in IF s3_ok /\ documents[d].is_processed
                  THEN DeindexOutcomes(d)
                  ELSE {[document |-> documents[d], vectors |-> vectors,
                         result |-> NoOp]} :
       \E sweep \in SweepOutcomes(d, out.document.is_processed, out.vectors) :
       \E commit_ok \in BOOLEAN :
         /\ blobs' = IF s3_ok THEN [blobs EXCEPT ![d].stored = FALSE] ELSE blobs
         /\ vectors' = sweep.vectors
         /\ documents' = [documents EXCEPT ![d] =
                             IF commit_ok THEN NoDocument ELSE out.document]
         /\ chunk_rows' = IF commit_ok
                          THEN SelectSeq(chunk_rows, LAMBDA r : r.document_id # d)
                          ELSE chunk_rows
         /\ last_op' = [NoOp EXCEPT !.op = "delete_conversation", !.doc = d,
                                    !.status = IF commit_ok THEN "success" ELSE "raised",
                                    !.had_processed = documents[d].is_processed,
                                    !.deindex = out.result.status,
                                    !.sweeps = sweep.sweeps,
                                    !.blob = IF s3_ok THEN "deleted" ELSE "failed"]
         /\ index_history' = [index_history EXCEPT ![d] = HistoryAfter(@, out.result)]
    /\ run' = [run EXCEPT ![d] = IdleRun]
    /\ UNCHANGED <<indexes, runs_started, names_vars, aux_vars>>

-----------------------------------------------------------------------------
(* Retrieval                                                               *)

\* PineconeUtils.retrieve_documents for the conversation of document d,
\* called by RAGNodes.retrieve_documents, which catches nothing
RetrieveDocuments(d) ==
    /\ \A other \in DocIds : run[other].pc \in RestingPc
    /\ LET index_name == Text(RetrieveIndex)
           namespace  == Text(RetrieveNamespace(DocUser(d), DocThread(d)))
           hits       == {v \in vectors : v.index = index_name /\ v.namespace = namespace}
           missing    == index_name \notin indexes
       IN  \E calls_ok \in BOOLEAN :
             last_op' = [NoOp EXCEPT
                            !.op = "retrieve", !.doc = d,
                            !.status = IF ~calls_ok \/ missing THEN "raised"
                                       ELSE IF hits = {} THEN "empty" ELSE "hits",
                            !.clean = calls_ok,
                            !.index_missing = missing]
    /\ UNCHANGED <<documents, chunk_rows, blobs, indexes, vectors, run, runs_started,
                   index_history, names_vars, aux_vars>>

-----------------------------------------------------------------------------
(* The vector database outside the application                             *)

\* the index is removed in the vector database, with all its vectors, while
\* no ingest_document call is executing: what list_indexes then reports
RemoveIndexExternally ==
    /\ indexes # {}
    /\ \A d \in DocIds : run[d].pc \in RestingPc
    /\ indexes' = {}
    /\ vectors' = {}
    /\ run' = [d \in DocIds |-> IdleRun]
    /\ last_op' = NoOp
    /\ UNCHANGED <<documents, chunk_rows, blobs, runs_started, index_history, names_vars, aux_vars>>

-----------------------------------------------------------------------------
(* Name resolution on bounded inputs                                       *)

\* owner ids of one, two and three digits; the digits of one start another,
\* and the digit they differ by is a character of the conversation ids
OwnerIds == {1, 17, 123}
\* characters a conversation id is drawn from: allowed ones and others
ThreadChars == {"a", "Z", "7", "-", "_", ".", " "}
\* lengths of the run of "x" a conversation id starts with: short ids and ids
\* around the length at which the namespace is cut
PadLengths == {0, 58, 59, 60, 61, 62, 63, 64}
ThreadIds == {Rep("x", k) \o t : k \in PadLengths, t \in StringsUpTo(ThreadChars, MaxTail)}

NoPair == [index |-> <<>>, namespace |-> <<>>, done |-> FALSE]

\* no delete_document_from_index names resolved yet
NoDeindexPair == [stored |-> FALSE, by_id |-> [index |-> <<>>, namespace |-> <<>>],
                  by_filter |-> [index |-> <<>>, namespace |-> <<>>], done |-> FALSE]

\* ingest_document lines 89-106
ResolveIngest ==
    /\ ~ingest_pair.done
    /\ ingest_pair' = [index |-> IngestIndex,
                       namespace |-> IngestNamespace(owner_id, thread_id),
                       done |-> TRUE]
    /\ UNCHANGED <<owner_id, thread_id, retrieve_pair, deindex_pair, sweep_pair,
                   pipeline_vars, aux_vars>>

\* retrieve_documents lines 34-64
ResolveRetrieve ==
    /\ ~retrieve_pair.done
    /\ retrieve_pair' = [index |-> RetrieveIndex,
                         namespace |-> RetrieveNamespace(owner_id, thread_id),
                         done |-> TRUE]
    /\ UNCHANGED <<owner_id, thread_id, ingest_pair, deindex_pair, sweep_pair,
                   pipeline_vars, aux_vars>>

\* delete_document_from_index lines 231-303: the names of the two removal
\* steps, for a document whose metadata holds the names of a successful
\* ingest_document run (stored) and for one whose metadata holds none
ResolveDeindex ==
    /\ ~deindex_pair.done
    /\ \E stored \in BOOLEAN :
         /\ stored => ingest_pair.done
         /\ LET m == IF stored
                     THEN SuccessMetadata(NewMetadata, ingest_pair.index,
                                          ingest_pair.namespace, 0)
                     ELSE NewMetadata
                target == DeindexNames(owner_id, thread_id, m)
            IN  deindex_pair' = [stored |-> stored,
                                 by_id |-> ByIdPair(target),
                                 by_filter |-> SanitizedPair(target.index, target.namespace),
                                 done |-> TRUE]
    /\ UNCHANGED <<owner_id, thread_id, ingest_pair, retrieve_pair, sweep_pair,
                   pipeline_vars, aux_vars>>

\* _delete_conversation_internal lines 233-242 and delete_namespace: the
\* names of the final sweep
ResolveSweep ==
    /\ ~sweep_pair.done
    /\ LET sanitized_index     == sanitize_index_name(SweepIndexName(owner_id))
           sanitized_namespace == sanitize_namespace(thread_id)
           swept               == SanitizedPair(sanitized_index, sanitized_namespace)
       IN  sweep_pair' = [index |-> swept.index, namespace |-> swept.namespace,
                          done |-> TRUE]
    /\ UNCHANGED <<owner_id, thread_id, ingest_pair, retrieve_pair, deindex_pair,
                   pipeline_vars, aux_vars>>

-----------------------------------------------------------------------------
(* Sanitization on bounded inputs                                          *)

\* characters a raw name is drawn from: lower and upper case letters, a
\* digit, the hyphen, the underscore and two characters no name may hold
RawChars == {"a", "Z", "7", "-", "_", ".", " "}
\* characters of the long run in the middle of a raw name
FillChars == {"x", "-", "."}
\* lengths of that run: none, short ones, and lengths around the two limits
FillLengths == {0, 1, 2, 3, 44, 45, 46, 63, 64, 65}
\* raw names: a free head, a run, a free last character; and the names
\* ingestion itself derives its index and namespaces from
RawNames ==
    {h \o Rep(c, k) \o t : h \in StringsUpTo(RawChars, MaxAffix), c \in FillChars,
                            k \in FillLengths, t \in StringsUpTo(RawChars, 1)}
    \cup {IndexName}
    \cup {RawNamespace(Str(o), Rep("x", k)) : o \in OwnerIds, k \in {0, 70}}

\* the name a sanitizer is given next: the raw name, then what was stored
NextInput(results) == IF results = <<>> THEN raw_name ELSE results[Len(results)]

\* sanitize_index_name applied by ensure_index_exists to the raw name, then
\* by delete_document / delete_namespace to the name it returned
SanitizeIndexName ==
    /\ Len(index_names) < 2
    /\ index_names' = Append(index_names, sanitize_index_name(NextInput(index_names)))
    /\ UNCHANGED <<raw_name, namespaces, pipeline_vars, names_vars, progress_vars, task_vars>>

\* sanitize_namespace applied by ingest_document to the raw name, then by
\* delete_document / delete_namespace to the name it returned
SanitizeNamespace ==
    /\ Len(namespaces) < 2
    /\ namespaces' = Append(namespaces, sanitize_namespace(NextInput(namespaces)))
    /\ UNCHANGED <<raw_name, index_names, pipeline_vars, names_vars, progress_vars, task_vars>>

-----------------------------------------------------------------------------
(* The progress values of one ingest_document call                         *)

\* total_chunks, i: the locals of the loop of lines 115-172; committed: the
\* chunks_indexed value last written; progress, previous: the
\* indexing_progress value last written and the one before it; writes: the
\* number of values written; finished: line 182 has written its value
NoProgress == [total_chunks |-> 1, i |-> 0, committed |-> 0, progress |-> 0,
               previous |-> 0, writes |-> 0, finished |-> FALSE]

\* lines 165-172: the progress written after the batch at offset i
ProgressAfterBatch ==
    /\ batch_progress.i < batch_progress.total_chunks
    /\ LET done == Min(batch_progress.i + BATCH_SIZE, batch_progress.total_chunks)
       IN  batch_progress' =
               [batch_progress EXCEPT !.i = @ + BATCH_SIZE,
                                      !.committed = done,
                                      !.previous = batch_progress.progress,
                                      !.progress = Progress(done, batch_progress.total_chunks),
                                      !.writes = @ + 1]
    /\ UNCHANGED <<pipeline_vars, names_vars, sanitize_vars, task_vars>>

\* lines 179-187: the progress written once the loop has ended
ProgressAtFinish ==
    /\ batch_progress.i >= batch_progress.total_chunks
    /\ ~batch_progress.finished
    /\ batch_progress' = [batch_progress EXCEPT !.previous = batch_progress.progress,
                                                !.progress = 100,
                                                !.writes = @ + 1,
                                                !.finished = TRUE]
    /\ UNCHANGED <<pipeline_vars, names_vars, sanitize_vars, task_vars>>

-----------------------------------------------------------------------------
(* The ingestion endpoints and their background tasks                      *)

\* the documents of the conversation the requests are about
TaskDocIds == {1, 2}
TaskIds == 1..MaxTasks

\* pc: free (no task), scheduled (add_task made), begun (ingest_document
\* has committed processing), listed (ensure_index_exists has listed the
\* indexes), ensured (it has returned), returned, raised;
\* seen: the listing held the index; index: the name ensure_index_exists
\* returned; error: what raised
NoTask == [pc |-> "free", doc |-> 0, seen |-> FALSE, index |-> <<>>, error |-> "none"]

\* an ingest_document call is between its first commit and its end
RunningPc == {"begun", "listed", "ensured"}

FreeTasks == {t \in TaskIds : tasks[t].pc = "free"}

\* background_tasks.add_task(process_document_task, ..) for the documents
\* docs, on the free slots of least number
Scheduled(docs) ==
    LET Slot(d) == CHOOSE t \in FreeTasks :
                      Cardinality({u \in FreeTasks : u < t}) =
                      Cardinality({e \in docs : e < d})
    IN  [t \in TaskIds |->
            IF \E d \in docs : Slot(d) = t
            THEN [NoTask EXCEPT !.pc = "scheduled",
                                !.doc = CHOOSE d \in docs : Slot(d) = t]
            ELSE tasks[t]]

\* routers/ingestion.py process_document: 400 while the document is
\* processing, else the task is scheduled
ProcessDocument(d) ==
    /\ FreeTasks # {}
    /\ IF task_docs[d].index_status = "processing"
       THEN /\ response' = "400"
            /\ UNCHANGED tasks
       ELSE /\ tasks' = Scheduled({d})
            /\ response' = "processing_started"
    /\ UNCHANGED <<task_docs, pipeline_vars, names_vars, sanitize_vars, progress_vars>>

\* routers/ingestion.py process_thread_documents: a task for every document
\* of the conversation that is not processed, 404 when there is none
ProcessThreadDocuments ==
    LET pending == {d \in TaskDocIds : ~task_docs[d].is_processed}
    IN  /\ Cardinality(FreeTasks) >= Cardinality(pending)
        /\ FreeTasks # {}
        /\ IF pending = {}
           THEN /\ response' = "404"
                /\ UNCHANGED tasks
           ELSE /\ tasks' = Scheduled(pending)
                /\ response' = "processing_started"
        /\ UNCHANGED <<task_docs, pipeline_vars, names_vars, sanitize_vars, progress_vars>>

\* the exception of a task: the except block of ingest_document records
\* failed (lines 197-202) and process_document_task logs it
TaskRaise(t, error) ==
    /\ tasks' = [tasks EXCEPT ![t].pc = "raised", ![t].error = error]
    /\ task_docs' = [task_docs EXCEPT ![tasks[t].doc].index_status = "failed"]

\* process_document_task starts and ingest_document commits processing
\* (ingestor.py lines 52-60)
TaskBegin(t) ==
    /\ tasks[t].pc = "scheduled"
    /\ tasks' = [tasks EXCEPT ![t].pc = "begun"]
    /\ task_docs' = [task_docs EXCEPT ![tasks[t].doc].index_status = "processing"]
    /\ UNCHANGED <<response, pipeline_vars, names_vars, sanitize_vars, progress_vars>>

\* ensure_index_exists lines 143-147: the listing of the indexes, which a
\* backend error may fail
TaskListIndexes(t) ==
    /\ tasks[t].pc = "begun"
    /\ \E list_ok \in BOOLEAN :
         IF list_ok
         THEN /\ tasks' = [tasks EXCEPT ![t].pc = "listed",
                                        ![t].seen = Text(IngestIndex) \in indexes]
              /\ UNCHANGED task_docs
         ELSE TaskRaise(t, "backend")
    /\ UNCHANGED <<response, pipeline_vars, names_vars, sanitize_vars, progress_vars>>

\* ensure_index_exists lines 149-166: create_index when the listing did not
\* hold the name.  The backend refuses to create an index that exists by
\* now; the refusal is a PineconeException, which is logged and raised again.
TaskCreateIndex(t) ==
    /\ tasks[t].pc = "listed"
    /\ IF tasks[t].seen
       THEN /\ tasks' = [tasks EXCEPT ![t].pc = "ensured", ![t].index = IngestIndex]
            /\ UNCHANGED <<task_docs, indexes>>
       ELSE IF Text(IngestIndex) \in indexes
       THEN /\ TaskRaise(t, "already_exists")
            /\ UNCHANGED indexes
       ELSE \E create_ok \in BOOLEAN :
              IF create_ok
              THEN /\ indexes' = indexes \cup {Text(IngestIndex)}
                   /\ tasks' = [tasks EXCEPT ![t].pc = "ensured", ![t].index = IngestIndex]
                   /\ UNCHANGED task_docs
              ELSE /\ TaskRaise(t, "backend")
                   /\ UNCHANGED indexes
    /\ UNCHANGED <<response, store_vars, names_vars, sanitize_vars, progress_vars>>

\* the rest of ingest_document, lines 108-205, as far as the Document row
\* goes: completed and processed, or failed by an exception of a batch
TaskFinish(t) ==
    /\ tasks[t].pc = "ensured"
    /\ \E ok \in BOOLEAN :
         IF ok
         THEN /\ tasks' = [tasks EXCEPT ![t].pc = "returned"]
              /\ task_docs' = [task_docs EXCEPT
                                  ![tasks[t].doc] = [index_status |-> "completed",
                                                     is_processed |-> TRUE]]
         ELSE TaskRaise(t, "batch")
    /\ UNCHANGED <<response, pipeline_vars, names_vars, sanitize_vars, progress_vars>>

-----------------------------------------------------------------------------
(* Specifications                                                          *)

TasksIdle ==
    /\ task_docs = [d \in TaskDocIds |-> [index_status |-> "pending", is_processed |-> FALSE]]
    /\ tasks = [t \in TaskIds |-> NoTask]
    /\ response = "none"

ProgressIdle == batch_progress = NoProgress

SanitizeIdle ==
    /\ raw_name = <<>>
    /\ index_names = <<>>
    /\ namespaces = <<>>

AuxIdle == SanitizeIdle /\ ProgressIdle /\ TasksIdle

PipelineInit ==
    /\ documents = [d \in DocIds |-> NewDocument]
    /\ chunk_rows = <<>>
    /\ blobs \in [DocIds -> [stored : {TRUE}, chunks : ChunkCounts]]
    /\ indexes = {}
    /\ vectors = {}
    /\ run = [d \in DocIds |-> IdleRun]
    /\ runs_started = [d \in DocIds |-> 0]
    /\ index_history = [d \in DocIds |-> "never"]
    /\ last_op = NoOp

NamesIdle ==
    /\ owner_id = 1
    /\ thread_id = <<>>
    /\ ingest_pair = NoPair
    /\ retrieve_pair = NoPair
    /\ deindex_pair = NoDeindexPair
    /\ sweep_pair = NoPair

Init == PipelineInit /\ NamesIdle /\ AuxIdle

Next ==
    \/ \E d \in DocIds : IngestBegin(d)
    \/ \E d \in DocIds : IngestPrepare(d)
    \/ \E d \in DocIds : IngestUpsert(d)
    \/ \E d \in DocIds : IngestCommitRows(d)
    \/ \E d \in DocIds : IngestCommitProgress(d)
    \/ \E d \in DocIds : IngestFinish(d)
    \/ \E d \in DocIds : Crash(d)
    \/ \E d \in DocIds : DeleteDocumentFromIndex(d)
    \/ \E d \in DocIds : DeleteDocument(d)
    \/ \E d \in DocIds : DeleteConversation(d)
    \/ \E d \in DocIds : RetrieveDocuments(d)
    \/ RemoveIndexExternally

Spec == Init /\ [][Next]_vars

PipelineIdle ==
    /\ documents = [d \in DocIds |-> NewDocument]
    /\ chunk_rows = <<>>
    /\ blobs = [d \in DocIds |-> [stored |-> TRUE, chunks |-> 0]]
    /\ indexes = {}
    /\ vectors = {}
    /\ run = [d \in DocIds |-> IdleRun]
    /\ runs_started = [d \in DocIds |-> 0]
    /\ index_history = [d \in DocIds |-> "never"]
    /\ last_op = NoOp

NamesInit ==
    /\ owner_id \in OwnerIds
    /\ thread_id \in ThreadIds
    /\ ingest_pair = NoPair
    /\ retrieve_pair = NoPair
    /\ deindex_pair = NoDeindexPair
    /\ sweep_pair = NoPair

InitNames == NamesInit /\ PipelineIdle /\ AuxIdle

NextNames ==
    \/ ResolveIngest
    \/ ResolveRetrieve
    \/ ResolveDeindex
    \/ ResolveSweep

SpecNames == InitNames /\ [][NextNames]_vars

SanitizeInit ==
    /\ raw_name \in RawNames
    /\ index_names = <<>>
    /\ namespaces = <<>>

InitSanitize == SanitizeInit /\ PipelineIdle /\ NamesIdle /\ ProgressIdle /\ TasksIdle

NextSanitize ==
    \/ SanitizeIndexName
    \/ SanitizeNamespace

SpecSanitize == InitSanitize /\ [][NextSanitize]_vars

ProgressInit ==
    \E n \in 1..MaxChunks : batch_progress = [NoProgress EXCEPT !.total_chunks = n]

InitProgress == ProgressInit /\ PipelineIdle /\ NamesIdle /\ SanitizeIdle /\ TasksIdle

NextProgress ==
    \/ ProgressAfterBatch
    \/ ProgressAtFinish

SpecProgress == InitProgress /\ [][NextProgress]_vars

InitTasks == TasksIdle /\ PipelineIdle /\ NamesIdle /\ SanitizeIdle /\ ProgressIdle

NextTasks ==
    \/ \E d \in TaskDocIds : ProcessDocument(d)
    \/ ProcessThreadDocuments
    \/ \E t \in TaskIds : TaskBegin(t)
    \/ \E t \in TaskIds : TaskListIndexes(t)
    \/ \E t \in TaskIds : TaskCreateIndex(t)
    \/ \E t \in TaskIds : TaskFinish(t)

SpecTasks == InitTasks /\ [][NextTasks]_vars

-----------------------------------------------------------------------------
(* Properties                                                              *)

Existing == {d \in DocIds : documents[d].exists}

\* the chunk rows of document d with chunk index c
RowsAt(d, c) == {k \in RowsOf(d) : chunk_rows[k].chunk_index = c}

\* the vectors of document d in the index and namespace ingestion resolves
IngestedVectors(d) ==
    {v \in VectorsOf(d) :
        /\ v.index = Text(IngestIndex)
        /\ v.namespace = Text(IngestNamespace(DocUser(d), DocThread(d)))}

HasIndexKeys(d) ==
    {"pinecone_index", "pinecone_namespace"} \subseteq documents[d].doc_metadata.keys

\* C1: in every reachable state, a document with is_processed = true has
\* index_status = completed.
C1_ProcessedImpliesCompleted ==
    \A d \in Existing :
        documents[d].is_processed => documents[d].index_status = "completed"

\* C2: once delete_document_from_index has returned for a document with at
\* least one of its two removal steps successful, the index holds no vector
\* with that document's id; and the by-filter step was attempted whatever
\* the by-id step did.
C2_DeindexLeavesNoVector ==
    (last_op.op = "deindex" /\ last_op.status # "warning") =>
        /\ last_op.by_filter \in {"ok", "failed"}
        /\ (last_op.by_id = "ok" \/ last_op.by_filter = "ok")
              => VectorsOf(last_op.doc) = {}

\* C3: once the delete endpoint has returned successfully with no external
\* call failing, the Document row, its chunk rows, its blob and all its
\* vectors are gone.
C3_DeleteRemovesAllThree ==
    (last_op.op = "delete" /\ last_op.status = "204" /\ last_op.clean) =>
        /\ ~documents[last_op.doc].exists
        /\ RowsOf(last_op.doc) = {}
        /\ ~blobs[last_op.doc].stored
        /\ VectorsOf(last_op.doc) = {}

\* C4: the (index, namespace) retrieve_documents searches is the one
\* ingest_document upserts into, for every owner id and conversation id.
C4_RetrievalResolvesAsIngestion ==
    (ingest_pair.done /\ retrieve_pair.done) =>
        /\ retrieve_pair.index = ingest_pair.index
        /\ retrieve_pair.namespace = ingest_pair.namespace

\* C5: retrieval against a vector database without the index returns an
\* empty result and does not raise.
C5_MissingIndexGivesEmptyResult ==
    (last_op.op = "retrieve" /\ last_op.clean /\ last_op.index_missing) =>
        last_op.status = "empty"

\* C6: after an ingest_document call was interrupted, the document has
\* exactly one chunk row for each chunk index the call committed and no
\* other chunk row, and its index_status is processing.
C6_InterruptedRunLeavesPrefix ==
    \A d \in Existing :
        run[d].pc = "crashed" =>
            /\ documents[d].index_status = "processing"
            /\ \A c \in 0..(blobs[d].chunks - 1) :
                  Cardinality(RowsAt(d, c)) = IF c < run[d].committed THEN 1 ELSE 0

\* C7: the chunk rows of a completed document correspond one to one with the
\* chunk indices 0..N-1, their vector ids are pairwise distinct, and each is
\* {namespace}_{document_id}_{chunk_index}.
C7_CompletedRowsAreDense ==
    \A d \in Existing :
        documents[d].index_status = "completed" =>
            /\ \A c \in 0..(Cardinality(RowsOf(d)) - 1) : Cardinality(RowsAt(d, c)) = 1
            /\ \A k1, k2 \in RowsOf(d) :
                  k1 # k2 => chunk_rows[k1].vector_id # chunk_rows[k2].vector_id
            /\ \A k \in RowsOf(d) :
                  chunk_rows[k].vector_id =
                      VectorId(IngestNamespace(DocUser(d), DocThread(d)), Str(d),
                               chunk_rows[k].chunk_index)

\* C8: when ingest_document returns, on a first run or a re-run, the
\* namespace holds exactly one vector for each chunk index of the document
\* and none for any other, and every chunk row of the document, of this run
\* or an earlier one, carries the id of the vector of its chunk index.
C8_RerunOverwritesVectors ==
    \A d \in Existing :
        run[d].pc = "returned" =>
            /\ documents[d].index_status = "completed"
            /\ \A c \in 0..(blobs[d].chunks - 1) :
                  Cardinality({v \in IngestedVectors(d) : v.chunk_index = c}) = 1
            /\ \A v \in VectorsOf(d) :
                  v \in IngestedVectors(d) /\ v.chunk_index < blobs[d].chunks
            /\ \A k \in RowsOf(d) :
                  \E v \in IngestedVectors(d) :
                      /\ v.id = chunk_rows[k].vector_id
                      /\ v.chunk_index = chunk_rows[k].chunk_index

\* a re-run of a document of several batches has returned, after an earlier
\* run had committed chunk rows
C8_Witness ==
    \E d \in Existing :
        /\ run[d].pc = "returned"
        /\ runs_started[d] >= 2
        /\ blobs[d].chunks > BATCH_SIZE
        /\ Cardinality(RowsOf(d)) > blobs[d].chunks

\* C9: when an ingest_document call has returned or raised, the persisted
\* index_status is completed or failed.
C9_CallEndsCompletedOrFailed ==
    \A d \in Existing :
        run[d].pc \in {"returned", "raised"} =>
            documents[d].index_status \in {"completed", "failed"}

\* C10 as stated: doc_metadata has the pinecone_index and pinecone_namespace
\* keys iff some ingest_document run on the document has ever succeeded.
C10_KeysIffEverIndexed ==
    \A d \in Existing : HasIndexKeys(d) <=> index_history[d] # "never"

\* C10 as amended: doc_metadata has the pinecone_index and pinecone_namespace
\* keys iff an ingest_document run on the document has succeeded and no
\* delete_document_from_index has succeeded since; the two keys come and go
\* together, with is_processed.
C10_KeysIffIndexedSince ==
    \A d \in Existing :
        /\ HasIndexKeys(d) <=> index_history[d] = "indexed"
        /\ HasIndexKeys(d) <=> documents[d].is_processed
        /\ "pinecone_index" \in documents[d].doc_metadata.keys
              <=> "pinecone_namespace" \in documents[d].doc_metadata.keys

\* a document that was indexed and then de-indexed, on which a later
\* ingest_document run failed
C10_Witness ==
    \E d \in Existing :
        /\ index_history[d] = "deindexed"
        /\ documents[d].index_status = "failed"
        /\ ~HasIndexKeys(d)

\* the DocumentChunk rows added since the ingest_document call on d began
RunRows(d) == SubSeq(chunk_rows, run[d].rows_before + 1, Len(chunk_rows))

\* the ingest_document call on d ended with the exception of the named step
RaisedAt(d, step) == run[d].pc = "raised" /\ run[d].raised_at = step

\* the failure of the call on d is persisted: failed, with the error message
FailureRecorded(d) ==
    /\ documents[d].index_status = "failed"
    /\ "error" \in documents[d].doc_metadata.keys

\* C11: when ingest_document has returned for a document of n chunks, the
\* document is processed and completed with progress 100 and the resolved
\* index and namespace in its metadata, each of the n chunks has a
\* DocumentChunk row and a vector in the resolved namespace, and the result
\* reports chunks_processed = n.
C11_SuccessLeavesBothCopies ==
    \A d \in Existing :
        run[d].pc = "returned" =>
            LET m == documents[d].doc_metadata
                n == blobs[d].chunks
            IN  /\ documents[d].is_processed
                /\ documents[d].index_status = "completed"
                /\ "indexing_progress" \in m.keys /\ m.indexing_progress = 100
                /\ HasIndexKeys(d)
                /\ m.pinecone_index = IngestIndex
                /\ m.pinecone_namespace = IngestNamespace(DocUser(d), DocThread(d))
                /\ \A c \in 0..(n - 1) :
                      /\ RowsAt(d, c) # {}
                      /\ \E v \in IngestedVectors(d) : v.chunk_index = c
                /\ run[d].total_chunks = n

\* a first ingest_document call on a document of a batch and a rest has
\* returned
C11_Witness ==
    \E d \in Existing :
        /\ run[d].pc = "returned"
        /\ runs_started[d] = 1
        /\ blobs[d].chunks > BATCH_SIZE
        /\ blobs[d].chunks % BATCH_SIZE # 0

\* C12: when download, extraction or chunking has failed in ingest_document,
\* the document is failed with the error in its metadata, the call has added
\* no DocumentChunk row and made no upsert, and the exception has left the
\* call.
C12_ExtractionFailureRecorded ==
    \A d \in Existing :
        RaisedAt(d, "process") =>
            /\ FailureRecorded(d)
            /\ RunRows(d) = <<>>
            /\ run[d].upserts = 0

\* C13: when the upsert of the batch at offset i has failed in
\* ingest_document, every batch up to that one was attempted once and none
\* after it, the call has added exactly the rows of the chunks before i, the
\* document is failed with the error in its metadata, and the exception has
\* left the call.
C13_UpsertFailureStopsRun ==
    \A d \in Existing :
        RaisedAt(d, "upsert") =>
            /\ run[d].upserts = (run[d].i \div BATCH_SIZE) + 1
            /\ Len(RunRows(d)) = run[d].i
            /\ \A k \in 1..Len(RunRows(d)) :
                  /\ RunRows(d)[k].document_id = d
                  /\ RunRows(d)[k].chunk_index = k - 1
            /\ FailureRecorded(d)

\* C14: once delete_document_from_index has returned success for a
\* document, the document has no DocumentChunk row.
C14_DeindexDeletesChunkRows ==
    (last_op.op = "deindex" /\ last_op.status = "success") =>
        RowsOf(last_op.doc) = {}

\* C15: delete_document_from_index returns warning when list_indexes does
\* not list the target index; a call that returns warning has made no vector
\* delete call and has left the Document rows, the DocumentChunk rows and
\* the vectors as they were.
C15_MissingIndexShortCircuits ==
    [][ /\ (last_op'.op = "deindex" /\ last_op'.listed /\ last_op'.index_missing)
            => last_op'.status = "warning"
        /\ (last_op'.op = "deindex" /\ last_op'.status = "warning")
            => /\ last_op'.by_id = "skipped"
               /\ last_op'.by_filter = "skipped"
               /\ documents' = documents
               /\ chunk_rows' = chunk_rows
               /\ vectors' = vectors ]_vars

\* delete_document_from_index has returned warning for a completed document
\* of several chunks whose index was removed since
C15_Witness ==
    /\ last_op.op = "deindex"
    /\ last_op.status = "warning"
    /\ documents[last_op.doc].is_processed
    /\ HasIndexKeys(last_op.doc)
    /\ RowsOf(last_op.doc) # {}

\* C16: delete_document_from_index on an existing document always returns a
\* result: when list_indexes fails the removal steps are still made, when
\* the by-id step fails the by-filter step is still made, and when the
\* commit fails the result is error and the Document rows are as they were;
\* a success leaves the document pending and not processed.
C16_DeindexNeverRaises ==
    [][ last_op'.op = "deindex" =>
          /\ last_op'.status \in {"success", "warning", "error"}
          /\ ~last_op'.listed
                => /\ last_op'.status \in {"success", "error"}
                   /\ last_op'.by_filter \in {"ok", "failed"}
          /\ last_op'.by_id = "failed" => last_op'.by_filter \in {"ok", "failed"}
          /\ last_op'.status = "error"
                => documents' = documents /\ chunk_rows' = chunk_rows
          /\ last_op'.status = "success"
                => /\ ~documents'[last_op'.doc].is_processed
                   /\ documents'[last_op'.doc].index_status = "pending" ]_vars

\* delete_document_from_index has returned error for a completed document
\* after list_indexes and both removal steps failed
C16_Witness ==
    /\ last_op.op = "deindex"
    /\ last_op.status = "error"
    /\ ~last_op.listed
    /\ last_op.by_id = "failed"
    /\ last_op.by_filter = "failed"
    /\ documents[last_op.doc].is_processed
    /\ HasIndexKeys(last_op.doc)

\* the (index, namespace) ingest_document upserts into for the owner and
\* conversation whose names are resolved
IngestTarget ==
    [index |-> IngestIndex, namespace |-> IngestNamespace(owner_id, thread_id)]

\* the namespace of ingestion for every owner and conversation of the model
NamespaceOf == [o \in OwnerIds, t \in ThreadIds |-> IngestNamespace(o, t)]

\* C17: the (index, namespace) of the by-id step and of the by-filter step of
\* delete_document_from_index are the (index, namespace) ingest_document
\* upserts into, whether the names come from the metadata or are recomputed.
C17_DeindexTargetsIngestPair ==
    deindex_pair.done =>
        /\ deindex_pair.by_id = IngestTarget
        /\ deindex_pair.by_filter = IngestTarget

\* the names were recomputed for a conversation id that is cut and has a
\* character sanitize_namespace replaces
C17_Witness ==
    /\ deindex_pair.done
    /\ ~deindex_pair.stored
    /\ Len(Str(owner_id)) + 1 + Len(thread_id) > MaxNamespaceLength
    /\ \E i \in 1..(MaxNamespaceLength - Len(Str(owner_id)) - 1) :
          thread_id[i] \notin NamespaceChars

\* C19: the (index, namespace) conversation deletion sweeps with
\* delete_namespace is the (index, namespace) ingest_document upserts into
\* for that owner and conversation.
C19_SweepTargetsIngestPair ==
    sweep_pair.done =>
        /\ sweep_pair.index = IngestTarget.index
        /\ sweep_pair.namespace = IngestTarget.namespace

\* C20: no other owner and conversation resolve to the namespace
\* ingest_document upserts into for this owner and conversation.
C20_NamespacesAreDistinct ==
    ingest_pair.done =>
        \A o \in OwnerIds, t \in ThreadIds :
            <<o, t>> # <<owner_id, thread_id>> => NamespaceOf[o, t] # ingest_pair.namespace

\* C18: a conversation deletion that found a processed member document has
\* called delete_namespace exactly once, also when every
\* delete_document_from_index call of its loop returned success.
C18_SweepCalledOnce ==
    (last_op.op = "delete_conversation" /\ last_op.had_processed) =>
        last_op.sweeps = 1


\* C21: whatever the input string (empty, only hyphens, only disallowed
\* characters, longer than the limits), every result of sanitize_index_name
\* has at most 45 characters, starts with a lower-case letter or a digit and
\* holds only lower-case letters, digits and hyphens; every result of
\* sanitize_namespace has at most 64 characters, all of them letters,
\* digits, underscores or hyphens.
C21_SanitizedNamesWellFormed ==
    /\ \A k \in 1..Len(index_names) :
         LET name == index_names[k]
         IN  /\ Len(name) <= 45
             /\ name # <<>>
             /\ name[1] \in LowerChars \cup DigitChars
             /\ \A i \in 1..Len(name) : name[i] \in LowerChars \cup DigitChars \cup {"-"}
    /\ \A k \in 1..Len(namespaces) :
         LET name == namespaces[k]
         IN  /\ Len(name) <= 64
             /\ \A i \in 1..Len(name) :
                    name[i] \in LowerChars \cup UpperChars \cup DigitChars \cup {"_", "-"}

\* both sanitizers have been applied to a raw name longer than either limit
\* that starts with a hyphen and holds a character neither of them allows
C21_Witness ==
    /\ Len(raw_name) > 64
    /\ raw_name[1] = "-"
    /\ \E i \in 1..Len(raw_name) : raw_name[i] \notin NamespaceChars
    /\ index_names # <<>>
    /\ namespaces # <<>>

\* C29: sanitize_index_name and sanitize_namespace are idempotent: a name
\* that was sanitized and stored is left as it is when delete_document or
\* delete_namespace sanitize it again, so both address the index and the
\* namespace the first sanitization produced.
C29_SanitizersIdempotent ==
    /\ Len(index_names) = 2 => index_names[2] = index_names[1]
    /\ Len(namespaces) = 2 => namespaces[2] = namespaces[1]

\* both names were sanitized twice, and the first sanitization changed both
C29_Witness ==
    /\ Len(index_names) = 2
    /\ Len(namespaces) = 2
    /\ index_names[1] # raw_name
    /\ namespaces[1] # raw_name
    /\ Len(raw_name) > 64

\* C22: for every owner id and conversation id the namespace ingestion
\* resolves has at most 64 characters and begins with the whole owner id
\* followed by a hyphen; the conversation id is the only part cut, and it is
\* cut no further than the limit requires.
C22_NamespaceKeepsOwner ==
    ingest_pair.done =>
        LET owner == Str(owner_id)
            namespace == ingest_pair.namespace
            whole == Len(owner) + 1 + Len(thread_id)
        IN  /\ Len(namespace) <= 64
            /\ Len(namespace) = IF whole > 64 THEN 64 ELSE whole
            /\ SubSeq(namespace, 1, Len(owner) + 1) = owner \o <<"-">>

\* ingestion resolved the namespace of a three-digit owner and a
\* conversation id that does not fit
C22_Witness ==
    /\ ingest_pair.done
    /\ owner_id > 99
    /\ Len(Str(owner_id)) + 1 + Len(thread_id) > 64

\* for every owner, the namespaces ingestion resolves for the other owners
ForeignNamespaces ==
    [u \in OwnerIds |-> {NamespaceOf[o, t] : o \in OwnerIds \ {u}, t \in ThreadIds}]

\* C30: the namespace ingestion resolves for one owner is never the
\* namespace it resolves for a different owner, whatever the two
\* conversation ids; and the (index, namespace) that retrieval, de-indexing
\* and the conversation sweep of one owner act on is never the
\* (index, namespace) ingestion wrote to for a different owner.
C30_OwnersAreIsolated ==
    LET Foreign(p) == p.index = IngestIndex /\ p.namespace \in ForeignNamespaces[owner_id]
    IN  /\ ingest_pair.done => ~Foreign(ingest_pair)
        /\ retrieve_pair.done => ~Foreign(retrieve_pair)
        /\ deindex_pair.done => ~Foreign(deindex_pair.by_id) /\ ~Foreign(deindex_pair.by_filter)
        /\ sweep_pair.done => ~Foreign(sweep_pair)

\* every name of owner 1 is resolved for a conversation id that starts with
\* the digit by which the id of owner 17 is longer
C30_Witness ==
    /\ owner_id = 1
    /\ thread_id # <<>>
    /\ thread_id[1] = "7"
    /\ ingest_pair.done
    /\ retrieve_pair.done
    /\ deindex_pair.done
    /\ sweep_pair.done

\* C24: while an ingest_document call runs and when it has ended, every
\* DocumentChunk row the call has committed has a vector with its vector_id
\* in the index and namespace of the call, and the add_texts calls of the
\* call are at most one batch ahead of its committed rows: the upsert of a
\* batch precedes the commit of its rows, which precedes the next upsert.
C24_VectorsPrecedeRows ==
    \A d \in Existing :
        run[d].pc # "idle" =>
            LET r == run[d]
                rows == RunRows(d)
                committed_batches == (r.committed + BATCH_SIZE - 1) \div BATCH_SIZE
            IN  /\ Len(rows) = r.committed
                /\ \A k \in 1..Len(rows) :
                      \E v \in vectors : /\ v.index = Text(r.index)
                                         /\ v.namespace = Text(r.namespace)
                                         /\ v.id = rows[k].vector_id
                /\ r.upserts \in {committed_batches, committed_batches + 1}

\* the second batch of a first call is upserted and its rows are not yet
\* committed
C24_Witness ==
    \E d \in Existing :
        /\ run[d].pc = "commit_rows"
        /\ run[d].i = BATCH_SIZE
        /\ runs_started[d] = 1
        /\ Len(RunRows(d)) = BATCH_SIZE

\* C28: once process_document has returned or raised in an ingest_document
\* call, at whichever step, the temporary file it created for the call no
\* longer exists.
C28_TempFileRemoved ==
    \A d \in Existing :
        run[d].processed # "no" => ~run[d].temp_file

\* C25: in one ingest_document call over n > 0 chunks, every
\* indexing_progress value written is an integer of 0..100 equal to
\* floor(100 * chunks_committed / n), is not less than the value written
\* before it, and is 100 only when all n chunks are committed.
C25_ProgressIsExactPercent ==
    batch_progress.writes > 0 =>
        /\ batch_progress.progress \in 0..100
        /\ batch_progress.progress =
              (100 * batch_progress.committed) \div batch_progress.total_chunks
        /\ batch_progress.progress >= batch_progress.previous
        /\ batch_progress.progress = 100 =>
              batch_progress.committed = batch_progress.total_chunks

\* the (index, namespace) the sweep of conversation deletion acts on, and
\* the one ingestion wrote to, for the conversation of every document
SweepTargetOf ==
    [d \in DocIds |->
        SanitizedPair(sanitize_index_name(SweepIndexName(DocUser(d))),
                      sanitize_namespace(DocThread(d)))]
IngestTargetOf ==
    [d \in DocIds |->
        [index |-> IngestIndex, namespace |-> IngestNamespace(DocUser(d), DocThread(d))]]

\* C27: in document deletion and in conversation deletion, a failed blob
\* deletion does not keep the vector cleanup of a processed document from
\* being attempted (by delete_document_from_index, or by a delete_namespace
\* call on the namespace ingestion wrote to), the blob deletion is attempted
\* whatever the vector cleanup did, and whenever the final commit succeeds
\* the Document row and its DocumentChunk rows are gone.
C27_DeletionStepsIndependent ==
    last_op.op \in {"delete", "delete_conversation"} =>
        LET d == last_op.doc
            cleanup_attempted ==
                \/ last_op.deindex # "none"
                \/ last_op.sweeps > 0 /\ SweepTargetOf[d] = IngestTargetOf[d]
        IN  /\ (last_op.blob = "failed" /\ last_op.had_processed) => cleanup_attempted
            /\ last_op.blob # "none"
            /\ last_op.status \in {"204", "success"} =>
                  ~documents[d].exists /\ RowsOf(d) = {}

\* C26: through the ingestion endpoints at most one ingest_document call
\* of a document is running at any time: a request that arrives once an
\* ingestion of the document is scheduled or started, and before it has
\* ended, starts no second call.
C26_OneRunPerDocument ==
    \A d \in TaskDocIds :
        Cardinality({t \in TaskIds : tasks[t].doc = d /\ tasks[t].pc \in RunningPc}) <= 1

\* C23: when ensure_index_exists calls of concurrent ingestions have all
\* listed the indexes while the index was absent, none of them raises
\* because the index exists by the time it creates it, and each returns the
\* sanitized index name.
C23_CreationRaceTolerated ==
    \A t \in TaskIds :
        (tasks[t].pc \in {"ensured", "returned", "raised"} /\ tasks[t].error # "backend"
         /\ ~tasks[t].seen) =>
            /\ tasks[t].error # "already_exists"
            /\ tasks[t].index = sanitize_index_name(IndexName)

=============================================================================
